---- MODULE Spec2Model ----
(***************************************************************************)
(* The bridge between the host process and the osascript interpreter:      *)
(* the AppleScript templates of CalendarManager, NotesManager and          *)
(* ContactsManager run against the applications' item stores, the          *)
(* executor that turns a child process into trimmed text or null, the      *)
(* decoding of the delimiter-joined text into records, and the tool        *)
(* callbacks that render an adapter result as one text block.              *)
(*                                                                         *)
(* A text is a sequence of one-character strings.  A JavaScript value is a *)
(* record tagged with its type (k), so that null, undefined, a string, an  *)
(* array and an object are all distinct values.                            *)
(***************************************************************************)
EXTENDS Integers, Sequences, FiniteSets, TLC

VARIABLES env, calls, server, notes, events, people, last

vars == <<env, calls, server, notes, events, people, last>>

(***************************************************************************)
(* Bounds of the model.                                                    *)
(***************************************************************************)
\* The most items an application holds.
MaxItems == 2

(***************************************************************************)
(* JavaScript values.                                                      *)
(***************************************************************************)
Null == [k |-> "null"]

Undefined == [k |-> "undefined"]

Str(t) == [k |-> "string", v |-> t]

Arr(s) == [k |-> "array", v |-> s]

Obj(r) == [k |-> "object", v |-> r]

IsString(x) == x.k = "string"

\* JavaScript truthiness of the values the adapters test: null, undefined
\* and the empty string are falsy, arrays and objects are truthy.
Truthy(x) ==
  /\ x.k \notin {"null", "undefined"}
  /\ (x.k = "string" => x.v # <<>>)

(***************************************************************************)
(* Text.                                                                   *)
(***************************************************************************)
NL == "\n"

WhiteSpace == {" ", NL, "\t"}

\* String.prototype.indexOf, 1-based; 0 when sep does not occur.
IndexOf(text, sep) ==
  LET hits == {i \in 1..(Len(text) - Len(sep) + 1) :
                 SubSeq(text, i, i + Len(sep) - 1) = sep}
  IN IF hits = {} THEN 0 ELSE CHOOSE i \in hits : \A j \in hits : i <= j

\* String.prototype.includes (case-sensitive).
Includes(text, sep) == IndexOf(text, sep) # 0

\* String.prototype.split with a non-empty separator: the leftmost
\* occurrence is cut first; the result always has at least one piece.
RECURSIVE Split(_, _)
Split(text, sep) ==
  LET i == IndexOf(text, sep)
  IN IF i = 0
       THEN <<text>>
       ELSE <<SubSeq(text, 1, i - 1)>>
              \o Split(SubSeq(text, i + Len(sep), Len(text)), sep)

\* String.prototype.trim.
RECURSIVE TrimStart(_)
TrimStart(text) ==
  IF text # <<>> /\ Head(text) \in WhiteSpace THEN TrimStart(Tail(text)) ELSE text

RECURSIVE TrimEnd(_)
TrimEnd(text) ==
  IF text # <<>> /\ text[Len(text)] \in WhiteSpace
    THEN TrimEnd(SubSeq(text, 1, Len(text) - 1))
    ELSE text

Trim(text) == TrimEnd(TrimStart(text))

\* Array.prototype.join.
RECURSIVE Join(_, _)
Join(pieces, sep) ==
  IF pieces = <<>> THEN <<>>
  ELSE IF Len(pieces) = 1 THEN pieces[1]
  ELSE pieces[1] \o sep \o Join(Tail(pieces), sep)

\* Decimal rendering of a natural number.
DigitChars == <<"0", "1", "2", "3", "4", "5", "6", "7", "8", "9">>

RECURSIVE Digits(_)
Digits(n) ==
  IF n < 10 THEN <<DigitChars[n + 1]>>
  ELSE Digits(n \div 10) \o <<DigitChars[(n % 10) + 1]>>

\* AppleScript compares text ignoring case unless a `considering case`
\* block says otherwise; none of the scripts has one.
UpperChars == <<"A", "B", "C", "D", "E", "F", "G", "H", "I", "J", "K", "L", "M",
                "N", "O", "P", "Q", "R", "S", "T", "U", "V", "W", "X", "Y", "Z">>

LowerChars == <<"a", "b", "c", "d", "e", "f", "g", "h", "i", "j", "k", "l", "m",
                "n", "o", "p", "q", "r", "s", "t", "u", "v", "w", "x", "y", "z">>

FoldChar(c) ==
  IF \E i \in 1..26 : UpperChars[i] = c
    THEN LowerChars[CHOOSE i \in 1..26 : UpperChars[i] = c]
    ELSE c

Fold(text) == [i \in 1..Len(text) |-> FoldChar(text[i])]

\* AppleScript `a is b` on text.
AsIs(a, b) == Fold(a) = Fold(b)

\* AppleScript `a contains b` on text.
AsContains(a, b) == Includes(Fold(a), Fold(b))

(***************************************************************************)
(* The wire format and the fixed phrases of the scripts.                   *)
(***************************************************************************)
FieldSep == <<"|", "|", "|">>

RecordSep == <<":", ":", ":">>

ListSep == <<",">>

\* osascript prints a list result with its items joined by ", ".
CalendarListSep == <<",", " ">>

\* process.env.APPLE_CALENDAR_NAME, here the calendar "Home".
DEFAULT_CALENDAR_NAME == <<"H", "o", "m", "e">>

\* A calendar name the Calendar application does not have.
OtherCalendarName == <<"W", "o", "r", "k">>

\* The calendars of the Calendar application.
calendars == <<DEFAULT_CALENDAR_NAME>>

ContactNotFound == <<"C","o","n","t","a","c","t"," ","n","o","t"," ","f","o","u","n","d">>

\* The status texts the scripts return, each followed by the title or name.
StatusPrefix ==
  [ contactNotFound |->
      ContactNotFound \o <<":", " ">>,
    contactDeleted |->
      <<"C","o","n","t","a","c","t"," ","d","e","l","e","t","e","d",":"," ">>,
    contactCreated |->
      <<"C","o","n","t","a","c","t"," ","c","r","e","a","t","e","d",":"," ">>,
    eventCreated |->
      <<"E","v","e","n","t"," ","c","r","e","a","t","e","d",":"," ">>,
    eventDeleted |->
      <<"E","v","e","n","t"," ","d","e","l","e","t","e","d",":"," ">>,
    eventNotFound |->
      <<"E","v","e","n","t"," ","n","o","t"," ","f","o","u","n","d",":"," ">>,
    noteCreated |->
      <<"N","o","t","e"," ","c","r","e","a","t","e","d",":"," ">>,
    noteUpdated |->
      <<"N","o","t","e"," ","u","p","d","a","t","e","d",":"," ">>,
    noteNotFound |->
      <<"N","o","t","e"," ","n","o","t"," ","f","o","u","n","d",":"," ">> ]

(***************************************************************************)
(* Dates.  A date is a number of seconds; AppleScript's `days` is the      *)
(* number of seconds of a day.  `date as string` and `date "..."` are the  *)
(* interpreter's rendering and parsing, modelled as "<day> hh:mm:ss".      *)
(***************************************************************************)
SecondsPerDay == 86400

\* The value of `current date` when a script runs: 10:00:00 on day 100.
Now == 100 * SecondsPerDay + 10 * 3600

Two(n) == <<DigitChars[(n \div 10) + 1], DigitChars[(n % 10) + 1]>>

DateText(t) ==
  LET s == t % SecondsPerDay
  IN Digits(t \div SecondsPerDay) \o <<" ">> \o Two(s \div 3600) \o <<":">>
       \o Two((s % 3600) \div 60) \o <<":">> \o Two(s % 60)

IsDigits(text) ==
  /\ text # <<>>
  /\ \A i \in 1..Len(text) : \E d \in 1..10 : DigitChars[d] = text[i]

DigitValue(c) == (CHOOSE d \in 1..10 : DigitChars[d] = c) - 1

RECURSIVE ParseNat(_)
ParseNat(text) ==
  IF Len(text) = 1 THEN DigitValue(text[1])
  ELSE 10 * ParseNat(SubSeq(text, 1, Len(text) - 1)) + DigitValue(text[Len(text)])

\* The date a text denotes, or -1 when the interpreter cannot read it as a
\* date (the script then fails).
ParseDate(text) ==
  LET parts == Split(text, <<" ">>)
      clock == IF Len(parts) = 2 THEN Split(parts[2], <<":">>) ELSE <<>>
  IN IF /\ Len(parts) = 2
        /\ IsDigits(parts[1])
        /\ Len(clock) = 3
        /\ \A i \in 1..3 : IsDigits(clock[i]) /\ Len(clock[i]) = 2
       THEN ParseNat(parts[1]) * SecondsPerDay + ParseNat(clock[1]) * 3600
              + ParseNat(clock[2]) * 60 + ParseNat(clock[3])
       ELSE -1

(***************************************************************************)
(* The child process.  A run of osascript either exits successfully, with  *)
(* the script's result and a newline on standard output and possibly a     *)
(* warning on standard error, or fails (spawn error or non-zero exit).     *)
(***************************************************************************)
WarningText == <<"w", "a", "r", "n">>

ProcOutcomes ==
  { [failed |-> FALSE, stderr |-> <<>>],
    [failed |-> FALSE, stderr |-> WarningText],
    [failed |-> TRUE, stderr |-> WarningText] }

\* What a script produced: err when the interpreter raised an error, else
\* the text of its result.
ScriptError == [err |-> TRUE, out |-> <<>>]

ScriptResult(text) == [err |-> FALSE, out |-> text]

\* A script that raises an error makes osascript exit non-zero.
ProcFits(proc, run) == run.err => proc.failed

\* An executor that takes text on standard error for a failure.
executeAppleScriptStrict(proc, run) ==
  IF proc.failed \/ proc.stderr # <<>> THEN Null
  ELSE Str(Trim(run.out \o <<NL>>))

\* An executor whose catch block returns nothing.
executeAppleScriptNoReturn(proc, run) ==
  IF proc.failed THEN Undefined ELSE Str(Trim(run.out \o <<NL>>))

\* executeAppleScript: the trimmed standard output, or null when execAsync
\* rejects.  The three managers have the same executor.
executeAppleScript(proc, run) ==
  IF proc.failed THEN Null ELSE Str(Trim(run.out \o <<NL>>))

\* A logging that reports failures only.
consoleErrorFailureOnly(proc) ==
  IF proc.failed
    THEN << <<"E", "r", "r", "o", "r", " ", "e", "x", "e", "c", "u", "t", "i", "n", "g", " ", "A", "p", "p", "l", "e", "S", "c", "r", "i", "p", "t", ":", " ">> >>
    ELSE <<>>

\* What executeAppleScript writes with console.error: the rejection of
\* execAsync, or else the text on standard error when there is some.
consoleError(proc) ==
  IF proc.failed
    THEN << <<"E", "r", "r", "o", "r", " ", "e", "x", "e", "c", "u", "t", "i", "n", "g", " ", "A", "p", "p", "l", "e", "S", "c", "r", "i", "p", "t", ":", " ">> >>
  ELSE IF proc.stderr # <<>>
    THEN << <<"A", "p", "p", "l", "e", "S", "c", "r", "i", "p", "t", " ", "e", "r", "r", "o", "r", ":", " ">>
              \o proc.stderr >>
  ELSE <<>>

(***************************************************************************)
(* Decoding helpers shared by the adapters.                                *)
(***************************************************************************)
\* Array destructuring: a position past the end of the array is undefined.
At(parts, i) == IF i <= Len(parts) THEN Str(parts[i]) ELSE Undefined

\* `x || undefined`.
OrUndefined(x) == IF Truthy(x) THEN x ELSE Undefined

\* `s ? s.split(",") : []`.
SplitList(x) ==
  IF Truthy(x)
    THEN LET items == Split(x.v, ListSep)
         IN Arr([i \in 1..Len(items) |-> Str(items[i])])
    ELSE Arr(<<>>)

\* `tell calendar "<name>"` raises an error when no calendar has the name.
CalendarExists(calendarName) ==
  \E i \in 1..Len(calendars) : AsIs(calendars[i], calendarName)

(***************************************************************************)
(* CalendarManager.  An event of the store is                              *)
(* [summary, start, end, description, location, url], the dates in seconds *)
(* and an attribute that was never set being the empty text.               *)
(***************************************************************************)
listCalendarsScript == ScriptResult(Join(calendars, CalendarListSep))

listCalendars(result) ==
  IF Truthy(result)
    THEN LET names == Split(result.v, CalendarListSep)
         IN Arr([i \in 1..Len(names) |-> Str(names[i])])
    ELSE Null

\* A window that leaves its last second out.
InWindowOpen(start, startDate, targetDate) ==
  start >= startDate /\ start < targetDate

\* `start date >= startDate and start date <= targetDate`.
InWindow(start, startDate, targetDate) ==
  start >= startDate /\ start <= targetDate

\* `events whose ...` of listEvents and searchEvents.
filteredEvents(days) ==
  LET startDate == Now
      targetDate == startDate + (days * SecondsPerDay)
  IN SelectSeq(events, LAMBDA e : InWindow(e.start, startDate, targetDate))

\* The text one event adds to the result of listEvents and searchEvents.
EventLine(e, calendarName) ==
  e.summary \o FieldSep \o DateText(e.start) \o FieldSep \o DateText(e.end)
    \o FieldSep \o calendarName

\* `repeat with e in filteredEvents` of listEvents.
RECURSIVE listEventsLoop(_, _, _, _)
listEventsLoop(es, i, eventList, calendarName) ==
  IF i > Len(es) THEN eventList
  ELSE listEventsLoop(es, i + 1,
         (IF eventList # <<>> THEN eventList \o RecordSep ELSE eventList)
           \o EventLine(es[i], calendarName),
         calendarName)

listEventsScript(calendarName, days) ==
  IF ~CalendarExists(calendarName) THEN ScriptError
  ELSE ScriptResult(listEventsLoop(filteredEvents(days), 1, <<>>, calendarName))

\* One decoded CalendarEvent.
CalendarEvent(eventStr) ==
  LET f == Split(eventStr, FieldSep)
  IN Obj([summary |-> At(f, 1), startDate |-> At(f, 2),
          endDate |-> At(f, 3), calendar |-> At(f, 4)])

\* A decoding that splits whatever text it is given, the empty text too.
listEventsUnguarded(result) ==
  IF result = Null THEN Null
  ELSE LET strings == Split(result.v, RecordSep)
         IN Arr([i \in 1..Len(strings) |-> CalendarEvent(strings[i])])

\* The decoding of listEvents and searchEvents.
listEvents(result) ==
  IF Truthy(result)
    THEN LET strings == Split(result.v, RecordSep)
         IN Arr([i \in 1..Len(strings) |-> CalendarEvent(strings[i])])
    ELSE Null

\* A test that wants the query in both texts.
SearchMatchBoth(first, second, query) ==
  AsContains(first, query) /\ AsContains(second, query)

\* The test of searchEvents and searchNotes on an item's two texts.
SearchMatch(first, second, query) ==
  AsContains(first, query) \/ AsContains(second, query)

\* `repeat with e in filteredEvents` of searchEvents.
RECURSIVE searchEventsLoop(_, _, _, _, _)
searchEventsLoop(es, i, searchResults, query, calendarName) ==
  IF i > Len(es) THEN searchResults
  ELSE searchEventsLoop(es, i + 1,
         (IF SearchMatch(es[i].summary, es[i].description, query)
            THEN (IF searchResults # <<>> THEN searchResults \o RecordSep
                                          ELSE searchResults)
                   \o EventLine(es[i], calendarName)
            ELSE searchResults),
         query, calendarName)

searchEventsScript(query, calendarName, days) ==
  IF ~CalendarExists(calendarName) THEN ScriptError
  ELSE ScriptResult(
         searchEventsLoop(filteredEvents(days), 1, <<>>, query, calendarName))

searchEvents(result) == listEvents(result)

\* createEvent: `make new event with properties {...}`; the application
\* decides where the new event stands among the calendar's events.
createEventScript(calendarName, title, startDate, endDate) ==
  IF \/ ~CalendarExists(calendarName)
     \/ ParseDate(startDate) < 0
     \/ ParseDate(endDate) < 0
    THEN ScriptError
    ELSE ScriptResult(StatusPrefix.eventCreated \o title)

NewEvent(title, startDate, endDate, description) ==
  [summary |-> title, start |-> ParseDate(startDate), end |-> ParseDate(endDate),
   description |-> description, location |-> <<>>, url |-> <<>>]

InsertAt(s, pos, x) == SubSeq(s, 1, pos - 1) \o <<x>> \o SubSeq(s, pos, Len(s))

RemoveAt(s, pos) == SubSeq(s, 1, pos - 1) \o SubSeq(s, pos + 1, Len(s))

\* A test by containment.
ExactMatchContains(field, wanted) == AsContains(field, wanted)

\* The test of the get, delete and edit loops on an item's title or name.
ExactMatch(field, wanted) == AsIs(field, wanted)

\* `repeat with e in events ... exit repeat`: the position of the first
\* event with the title, or 0.
RECURSIVE FirstEvent(_, _, _)
FirstEvent(es, i, eventTitle) ==
  IF i > Len(es) THEN 0
  ELSE IF ExactMatch(es[i].summary, eventTitle) THEN i
  ELSE FirstEvent(es, i + 1, eventTitle)

deleteEventScript(calendarName, eventTitle) ==
  IF ~CalendarExists(calendarName) THEN ScriptError
  ELSE IF FirstEvent(events, 1, eventTitle) # 0
    THEN ScriptResult(StatusPrefix.eventDeleted \o eventTitle)
    ELSE ScriptResult(StatusPrefix.eventNotFound \o eventTitle)

\* A deletion that removes every event with the title.
deleteEventStoreAll(eventTitle) ==
  SelectSeq(events, LAMBDA e : ~AsIs(e.summary, eventTitle))

deleteEventStore(eventTitle) ==
  LET i == FirstEvent(events, 1, eventTitle)
  IN IF i = 0 THEN events ELSE RemoveAt(events, i)

getEventDetailsScript(calendarName, eventTitle) ==
  IF ~CalendarExists(calendarName) THEN ScriptError
  ELSE LET i == FirstEvent(events, 1, eventTitle)
       IN IF i = 0 THEN ScriptResult(<<>>)
          ELSE ScriptResult(
                 EventLine(events[i], calendarName) \o FieldSep
                   \o events[i].description \o FieldSep \o events[i].location
                   \o FieldSep \o events[i].url)

getEventDetails(result) ==
  IF Truthy(result)
    THEN LET f == Split(result.v, FieldSep)
         IN Obj([summary |-> At(f, 1), startDate |-> At(f, 2),
                 endDate |-> At(f, 3), calendar |-> At(f, 4),
                 description |-> At(f, 5), location |-> At(f, 6),
                 url |-> At(f, 7)])
    ELSE Null

(***************************************************************************)
(* Identifiers.  The application names every new item; the model gives it  *)
(* the least number no stored item carries, after a one-letter prefix.     *)
(***************************************************************************)
FreshId(prefix, items) ==
  LET used == {items[i].id : i \in 1..Len(items)}
      free == {n \in 1..(Len(items) + 1) : (prefix \o Digits(n)) \notin used}
  IN prefix \o Digits(CHOOSE n \in free : \A m \in free : n <= m)

(***************************************************************************)
(* NotesManager.  A note of the store is [id, name, body].                 *)
(***************************************************************************)
NoteLine(n) == n.id \o FieldSep \o n.name \o FieldSep \o n.body

\* `repeat with n in notes` of searchNotes.
RECURSIVE searchNotesLoop(_, _, _, _)
searchNotesLoop(ns, i, searchResults, query) ==
  IF i > Len(ns) THEN searchResults
  ELSE searchNotesLoop(ns, i + 1,
         (IF SearchMatch(ns[i].name, ns[i].body, query)
            THEN (IF searchResults # <<>> THEN searchResults \o RecordSep
                                          ELSE searchResults)
                   \o NoteLine(ns[i])
            ELSE searchResults),
         query)

searchNotesScript(query) == ScriptResult(searchNotesLoop(notes, 1, <<>>, query))

\* A decoding that takes everything after the second delimiter for the body.
NoteRest(noteStr) ==
  LET f == Split(noteStr, FieldSep)
  IN Obj([id |-> At(f, 1), name |-> At(f, 2),
          body |-> IF Len(f) < 3 THEN Undefined
                   ELSE Str(Join(SubSeq(f, 3, Len(f)), FieldSep))])

\* One decoded Note.
Note(noteStr) ==
  LET f == Split(noteStr, FieldSep)
  IN Obj([id |-> At(f, 1), name |-> At(f, 2), body |-> At(f, 3)])

\* A decoding of whatever text it is given, the empty text too.
listNotesUnguarded(result) ==
  IF result = Null THEN Null
    ELSE LET strings == Split(result.v, RecordSep)
         IN Arr([i \in 1..Len(strings) |-> Note(strings[i])])

\* The decoding of searchNotes and listNotes.
listNotes(result) ==
  IF Truthy(result)
    THEN LET strings == Split(result.v, RecordSep)
         IN Arr([i \in 1..Len(strings) |-> Note(strings[i])])
    ELSE Null

searchNotes(result) == listNotes(result)

createNoteScript(title) == ScriptResult(StatusPrefix.noteCreated \o title)

NewNote(title, body) ==
  [id |-> FreshId(<<"n">>, notes), name |-> title, body |-> body]

\* `repeat with n in notes ... return`: the position of the first note with
\* the title, or 0.
RECURSIVE FirstNote(_, _, _)
FirstNote(ns, i, noteTitle) ==
  IF i > Len(ns) THEN 0
  ELSE IF ExactMatch(ns[i].name, noteTitle) THEN i
  ELSE FirstNote(ns, i + 1, noteTitle)

editNoteScript(noteTitle) ==
  IF FirstNote(notes, 1, noteTitle) # 0
    THEN ScriptResult(StatusPrefix.noteUpdated \o noteTitle)
    ELSE ScriptResult(StatusPrefix.noteNotFound \o noteTitle)

editNoteStore(noteTitle, newBody) ==
  LET i == FirstNote(notes, 1, noteTitle)
  IN IF i = 0 THEN notes ELSE [notes EXCEPT ![i].body = newBody]

\* `repeat with n in notes` of listNotes.
RECURSIVE listNotesLoop(_, _, _)
listNotesLoop(ns, i, noteList) ==
  IF i > Len(ns) THEN noteList
  ELSE listNotesLoop(ns, i + 1,
         (IF noteList # <<>> THEN noteList \o RecordSep ELSE noteList)
           \o NoteLine(ns[i]))

listNotesScript == ScriptResult(listNotesLoop(notes, 1, <<>>))

getNoteContentScript(noteTitle) ==
  LET i == FirstNote(notes, 1, noteTitle)
  IN IF i = 0 THEN ScriptResult(StatusPrefix.noteNotFound \o noteTitle)
     ELSE ScriptResult(notes[i].body)

(***************************************************************************)
(* ContactsManager.  A person of the store is                              *)
(* [id, name, emails, phones, organization, birthday]: emails and phones   *)
(* are sequences of texts, an organization that was never set is the empty *)
(* text and a birth date that was never set is -1.                         *)
(***************************************************************************)
NoBirthday == 0 - 1

\* `repeat with e in emails of p` and `repeat with ph in phones of p`.
RECURSIVE ValueListLoop(_, _, _)
ValueListLoop(values, i, list) ==
  IF i > Len(values) THEN list
  ELSE ValueListLoop(values, i + 1,
         (IF list # <<>> THEN list \o ListSep ELSE list) \o values[i])

\* `try ... birth date of p ... on error ... & ""`.
BirthdayText(p) == IF p.birthday = NoBirthday THEN <<>> ELSE DateText(p.birthday)

\* contactInfo of searchContacts, listContacts and getContact.
ContactInfo(p) ==
  p.id \o FieldSep \o p.name \o FieldSep
    \o ValueListLoop(p.emails, 1, <<>>) \o FieldSep
    \o ValueListLoop(p.phones, 1, <<>>) \o FieldSep
    \o p.organization \o FieldSep
    \o BirthdayText(p)

\* The test of searchContacts on a person's name and organization.
ContactMatch(p, query) ==
  AsContains(p.name, query) \/ AsContains(p.organization, query)

\* `repeat with p in people` of searchContacts.
RECURSIVE searchContactsLoop(_, _, _, _)
searchContactsLoop(ps, i, searchResults, query) ==
  IF i > Len(ps) THEN searchResults
  ELSE searchContactsLoop(ps, i + 1,
         (IF ContactMatch(ps[i], query)
            THEN (IF searchResults # <<>> THEN searchResults \o RecordSep
                                          ELSE searchResults)
                   \o ContactInfo(ps[i])
            ELSE searchResults),
         query)

searchContactsScript(query) ==
  ScriptResult(searchContactsLoop(people, 1, <<>>, query))

\* One decoded Contact.
Contact(contactStr) ==
  LET f == Split(contactStr, FieldSep)
  IN Obj([id |-> At(f, 1), name |-> At(f, 2),
          emails |-> SplitList(At(f, 3)), phones |-> SplitList(At(f, 4)),
          organization |-> OrUndefined(At(f, 5)),
          birthday |-> OrUndefined(At(f, 6))])

\* The decoding of searchContacts and listContacts.
listContacts(result) ==
  IF Truthy(result)
    THEN LET strings == Split(result.v, RecordSep)
         IN Arr([i \in 1..Len(strings) |-> Contact(strings[i])])
    ELSE Null

searchContacts(result) == listContacts(result)

\* `repeat with p in people` of listContacts.
RECURSIVE listContactsLoop(_, _, _)
listContactsLoop(ps, i, contactList) ==
  IF i > Len(ps) THEN contactList
  ELSE listContactsLoop(ps, i + 1,
         (IF contactList # <<>> THEN contactList \o RecordSep ELSE contactList)
           \o ContactInfo(ps[i]))

listContactsScript == ScriptResult(listContactsLoop(people, 1, <<>>))

\* A template literal's rendering of a value.
Interpolate(x) ==
  IF x = Undefined THEN <<"u", "n", "d", "e", "f", "i", "n", "e", "d">>
  ELSE IF x = Null THEN <<"n", "u", "l", "l">>
  ELSE x.v

\* The properties of `make new person with properties {...}` in the script
\* createContact builds: the organization only when one was given.
PersonProperties(name, organization) ==
  [name |-> <<name>>,
   organization |-> IF Truthy(organization) THEN <<Interpolate(organization)>>
                                            ELSE <<>>]

\* The optional statement of createContact for an email or a phone: the
\* values it adds.
OptionalValue(x) == IF Truthy(x) THEN <<Interpolate(x)>> ELSE <<>>

createContactScript(name, birthday) ==
  IF Truthy(birthday) /\ ParseDate(Interpolate(birthday)) < 0
    THEN ScriptError
    ELSE ScriptResult(StatusPrefix.contactCreated \o name)

NewPerson(name, email, phone, organization, birthday) ==
  LET props == PersonProperties(name, organization)
  IN [id |-> FreshId(<<"p">>, people),
      name |-> props.name[1],
      emails |-> OptionalValue(email),
      phones |-> OptionalValue(phone),
      organization |-> IF props.organization = <<>> THEN <<>>
                                                   ELSE props.organization[1],
      birthday |-> IF Truthy(birthday) THEN ParseDate(Interpolate(birthday))
                                       ELSE NoBirthday]

\* `repeat with p in people ... return`: the position of the first person
\* with the name, or 0.
RECURSIVE FirstPerson(_, _, _)
FirstPerson(ps, i, contactName) ==
  IF i > Len(ps) THEN 0
  ELSE IF ExactMatch(ps[i].name, contactName) THEN i
  ELSE FirstPerson(ps, i + 1, contactName)

getContactScript(contactName) ==
  LET i == FirstPerson(people, 1, contactName)
  IN IF i = 0 THEN ScriptResult(StatusPrefix.contactNotFound \o contactName)
     ELSE ScriptResult(ContactInfo(people[i]))

getContact(result) ==
  IF Truthy(result) /\ ~Includes(result.v, ContactNotFound)
    THEN Contact(result.v)
    ELSE Null

deleteContactScript(contactName) ==
  IF FirstPerson(people, 1, contactName) # 0
    THEN ScriptResult(StatusPrefix.contactDeleted \o contactName)
    ELSE ScriptResult(StatusPrefix.contactNotFound \o contactName)

deleteContactStore(contactName) ==
  LET i == FirstPerson(people, 1, contactName)
  IN IF i = 0 THEN people ELSE RemoveAt(people, i)

(***************************************************************************)
(* JSON.stringify(value, null, 2).                                         *)
(***************************************************************************)
Spaces(n) == [i \in 1..n |-> " "]

JsonChar(c) ==
  IF c = "\"" THEN <<"\\", "\"">>
  ELSE IF c = "\\" THEN <<"\\", "\\">>
  ELSE IF c = NL THEN <<"\\", "n">>
  ELSE IF c = "\t" THEN <<"\\", "t">>
  ELSE <<c>>

RECURSIVE JsonEscape(_)
JsonEscape(text) ==
  IF text = <<>> THEN <<>> ELSE JsonChar(Head(text)) \o JsonEscape(Tail(text))

JsonString(text) == <<"\"">> \o JsonEscape(text) \o <<"\"">>

\* The property names of the records, as JSON.stringify writes them.
KEY ==
  [ summary |-> <<"s", "u", "m", "m", "a", "r", "y">>,
    startDate |-> <<"s", "t", "a", "r", "t", "D", "a", "t", "e">>,
    endDate |-> <<"e", "n", "d", "D", "a", "t", "e">>,
    calendar |-> <<"c", "a", "l", "e", "n", "d", "a", "r">>,
    description |-> <<"d", "e", "s", "c", "r", "i", "p", "t", "i", "o", "n">>,
    location |-> <<"l", "o", "c", "a", "t", "i", "o", "n">>,
    url |-> <<"u", "r", "l">>,
    id |-> <<"i", "d">>,
    name |-> <<"n", "a", "m", "e">>,
    emails |-> <<"e", "m", "a", "i", "l", "s">>,
    phones |-> <<"p", "h", "o", "n", "e", "s">>,
    organization |-> <<"o", "r", "g", "a", "n", "i", "z", "a", "t", "i", "o", "n">>,
    birthday |-> <<"b", "i", "r", "t", "h", "d", "a", "y">>,
    body |-> <<"b", "o", "d", "y">> ]

\* The properties of a decoded record, in the order the object literal of
\* the adapter lists them.
Props(r) ==
  IF "url" \in DOMAIN r
    THEN << <<KEY.summary, r.summary>>, <<KEY.startDate, r.startDate>>,
            <<KEY.endDate, r.endDate>>, <<KEY.calendar, r.calendar>>,
            <<KEY.description, r.description>>, <<KEY.location, r.location>>,
            <<KEY.url, r.url>> >>
  ELSE IF "summary" \in DOMAIN r
    THEN << <<KEY.summary, r.summary>>, <<KEY.startDate, r.startDate>>,
            <<KEY.endDate, r.endDate>>, <<KEY.calendar, r.calendar>> >>
  ELSE IF "emails" \in DOMAIN r
    THEN << <<KEY.id, r.id>>, <<KEY.name, r.name>>, <<KEY.emails, r.emails>>,
            <<KEY.phones, r.phones>>, <<KEY.organization, r.organization>>,
            <<KEY.birthday, r.birthday>> >>
  ELSE << <<KEY.id, r.id>>, <<KEY.name, r.name>>, <<KEY.body, r.body>> >>

RECURSIVE Json(_, _)
Json(x, indent) ==
  IF x.k = "string" THEN JsonString(x.v)
  ELSE IF x.k = "array"
    THEN IF x.v = <<>> THEN <<"[", "]">>
         ELSE <<"[", NL>>
                \o Join([i \in 1..Len(x.v) |->
                           Spaces(indent + 2) \o Json(x.v[i], indent + 2)],
                        <<",", NL>>)
                \o <<NL>> \o Spaces(indent) \o <<"]">>
  ELSE IF x.k = "object"
    THEN LET shown == SelectSeq(Props(x.v), LAMBDA kv : kv[2] # Undefined)
         IN IF shown = <<>> THEN <<"{", "}">>
            ELSE <<"{", NL>>
                   \o Join([i \in 1..Len(shown) |->
                              Spaces(indent + 2) \o JsonString(shown[i][1])
                                \o <<":", " ">> \o Json(shown[i][2], indent + 2)],
                           <<",", NL>>)
                   \o <<NL>> \o Spaces(indent) \o <<"}">>
  ELSE <<"n", "u", "l", "l">>

JSONstringify(x) == Json(x, 0)

(***************************************************************************)
(* The tool callbacks: what each makes of the adapter's result.            *)
(***************************************************************************)
\* The single content block a tool callback returns.
Content(text) == [content |-> << [type |-> "text", text |-> text] >>]

\* `result ? JSON.stringify(result, null, 2) : <message>`: the record tools
\* of the calendar and contacts servers.
JsonOr(result, message) ==
  IF Truthy(result) THEN Content(Str(JSONstringify(result)))
                    ELSE Content(Str(message))

\* `result ? result : <message>`: the create, delete, edit and
\* getNoteContent tools, and the searchNotes and listNotes tools, whose
\* result is the array of notes itself.
ResultOr(result, message) ==
  IF Truthy(result) THEN Content(result) ELSE Content(Str(message))

\* The listCalendars tool: `result.join(", ")`.
listCalendarsTool(result) ==
  IF Truthy(result)
    THEN Content(Str(Join([i \in 1..Len(result.v) |-> result.v[i].v],
                          CalendarListSep)))
    ELSE Content(Str(
    <<"N", "o", " ", "c", "a", "l", "e", "n", "d", "a", "r", "s", " ", "f",
      "o", "u", "n", "d", ".">>))

listEventsTool(result) == JsonOr(result,
    <<"N", "o", " ", "e", "v", "e", "n", "t", "s", " ", "f", "o", "u", "n",
      "d", ".">>)

searchEventsTool(result) == JsonOr(result,
    <<"N", "o", " ", "m", "a", "t", "c", "h", "i", "n", "g", " ", "e", "v",
      "e", "n", "t", "s", " ", "f", "o", "u", "n", "d", ".">>)

createEventTool(result) == ResultOr(result,
    <<"F", "a", "i", "l", "e", "d", " ", "t", "o", " ", "c", "r", "e", "a",
      "t", "e", " ", "e", "v", "e", "n", "t", ".">>)

deleteEventTool(result) == ResultOr(result,
    <<"F", "a", "i", "l", "e", "d", " ", "t", "o", " ", "d", "e", "l", "e",
      "t", "e", " ", "e", "v", "e", "n", "t", ".">>)

getTodayEventsTool(result) == JsonOr(result,
    <<"N", "o", " ", "e", "v", "e", "n", "t", "s", " ", "s", "c", "h", "e",
      "d", "u", "l", "e", "d", " ", "f", "o", "r", " ", "t", "o", "d", "a",
      "y", ".">>)

getEventDetailsTool(result) == JsonOr(result,
    <<"E", "v", "e", "n", "t", " ", "n", "o", "t", " ", "f", "o", "u", "n",
      "d", ".">>)

createNoteTool(result) == ResultOr(result,
    <<"F", "a", "i", "l", "e", "d", " ", "t", "o", " ", "c", "r", "e", "a",
      "t", "e", " ", "n", "o", "t", "e", ".">>)

searchNotesTool(result) == ResultOr(result,
    <<"N", "o", " ", "m", "a", "t", "c", "h", "i", "n", "g", " ", "n", "o",
      "t", "e", "s", " ", "f", "o", "u", "n", "d", ".">>)

editNoteTool(result) == ResultOr(result,
    <<"F", "a", "i", "l", "e", "d", " ", "t", "o", " ", "e", "d", "i", "t",
      " ", "n", "o", "t", "e", ".">>)

listNotesTool(result) == ResultOr(result,
    <<"N", "o", " ", "n", "o", "t", "e", "s", " ", "f", "o", "u", "n", "d",
      ".">>)

getNoteContentTool(result) == ResultOr(result,
    <<"N", "o", "t", "e", " ", "n", "o", "t", " ", "f", "o", "u", "n", "d",
      ".">>)

listContactsTool(result) == JsonOr(result,
    <<"N", "o", " ", "c", "o", "n", "t", "a", "c", "t", "s", " ", "f", "o",
      "u", "n", "d", ".">>)

searchContactsTool(result) == JsonOr(result,
    <<"N", "o", " ", "m", "a", "t", "c", "h", "i", "n", "g", " ", "c", "o",
      "n", "t", "a", "c", "t", "s", " ", "f", "o", "u", "n", "d", ".">>)

getContactTool(result, contactName) ==
  JsonOr(result, StatusPrefix.contactNotFound \o contactName)

createContactTool(result) == ResultOr(result,
    <<"F", "a", "i", "l", "e", "d", " ", "t", "o", " ", "c", "r", "e", "a",
      "t", "e", " ", "c", "o", "n", "t", "a", "c", "t", ".">>)

deleteContactTool(result) == ResultOr(result,
    <<"F", "a", "i", "l", "e", "d", " ", "t", "o", " ", "d", "e", "l", "e",
      "t", "e", " ", "c", "o", "n", "t", "a", "c", "t", ".">>)

(***************************************************************************)
(* The arguments the agent passes to the tools.                            *)
(***************************************************************************)
Num(n) == [k |-> "number", v |-> n]

\* zod's `.optional().default(d)`.
ZodDefault(x, d) == IF x = Undefined THEN d ELSE x

Queries == { <<"C">>, <<"b", "c">> }

Titles == { <<"a", "b">>, <<"a", "b", "c">> }

RequiredCalendarArgs == { Str(DEFAULT_CALENDAR_NAME), Str(OtherCalendarName) }

OptionalCalendarArgs == { Undefined, Str(OtherCalendarName) }

ListDaysArgs == { Undefined, Num(0), Num(90) }

SearchDaysArgs == { Undefined, Num(7) }

\* createEvent arguments: a title, a start date and a description; the end
\* date is an hour after the start.
EventArgs ==
  { [title |-> <<"a", "b">>, startDate |-> DateText(Now + 7 * SecondsPerDay),
     description |-> <<"c">>],
    [title |-> <<"a", "b", "c">>, startDate |-> DateText(Now + 7 * SecondsPerDay + 1),
     description |-> <<>>],
    [title |-> <<"A", "B">>, startDate |-> DateText(Now - 1),
     description |-> <<>>],
    [title |-> <<"a", "b">>, startDate |-> DateText(Now + 90 * SecondsPerDay),
     description |-> <<>>],
    [title |-> <<"c">>, startDate |-> DateText(Now + 90 * SecondsPerDay + 1),
     description |-> <<"a", "b">>],
    [title |-> <<"b">>, startDate |-> <<"x">>, description |-> <<>>] }

EndDateText(startDate) ==
  IF ParseDate(startDate) < 0 THEN startDate
  ELSE DateText(ParseDate(startDate) + 3600)

NoteArgs ==
  { [title |-> <<"a", "b">>, body |-> <<"c">>],
    [title |-> <<"a", "b", "c">>, body |-> <<>>],
    [title |-> <<"A", "B">>, body |-> <<"a", "b">>] }

NewBodies == { <<>>, <<"c">> }

ContactArgs ==
  { [name |-> <<"a", "b">>, email |-> Undefined, phone |-> Undefined,
     organization |-> Undefined, birthday |-> Undefined],
    [name |-> <<"a", "b", "c">>, email |-> Str(<<"a", "@", "b">>),
     phone |-> Str(<<"5", "5">>), organization |-> Str(ContactNotFound),
     birthday |-> Str(DateText(5 * SecondsPerDay))],
    [name |-> <<"A", "B">>, email |-> Str(<<>>), phone |-> Undefined,
     organization |-> Str(<<"c">>), birthday |-> Undefined],
    [name |-> <<"a", "b">>, email |-> Str(ContactNotFound), phone |-> Undefined,
     organization |-> Undefined, birthday |-> Undefined],
    [name |-> <<"c">>, email |-> Undefined, phone |-> Undefined,
     organization |-> Str(<<>>), birthday |-> Str(<<"x">>)] }

(***************************************************************************)
(* The state: the items of the three applications, and the last tool call  *)
(* with the child process's outcome, the script's result, the adapter's    *)
(* result and the tool's response.  The three servers share nothing: each  *)
(* has its own manager and its own application.  A behaviour follows the   *)
(* calls to one of them, named by server.  env is the value of             *)
(* APPLE_CALENDAR_NAME in the environment, and calls holds the adapter     *)
(* calls that are in flight when calls overlap.                            *)
(***************************************************************************)
Servers == {"appleCalendar", "appleNotes", "appleContacts"}

Init ==
  /\ env = Str(DEFAULT_CALENDAR_NAME)
  /\ calls = <<>>
  /\ server \in Servers
  /\ notes = <<>>
  /\ events = <<>>
  /\ people = <<>>
  /\ last = [tool |-> "none"]

Called(tool, args, proc, run, result, response) ==
  last' = [tool |-> tool, args |-> args, proc |-> proc, run |-> run,
           result |-> result, response |-> response]

(***************************************************************************)
(* The calendar tools.                                                     *)
(***************************************************************************)
ListCalendarsTool ==
  \E proc \in ProcOutcomes :
    LET run == listCalendarsScript
        result == listCalendars(executeAppleScript(proc, run))
    IN /\ server = "appleCalendar"
       /\ ProcFits(proc, run)
       /\ Called("listCalendars", [none |-> TRUE], proc, run, result,
                 listCalendarsTool(result))
       /\ UNCHANGED <<env, calls, server, notes, events, people>>

ListEventsTool ==
  \E calendarName \in OptionalCalendarArgs, days \in ListDaysArgs,
     proc \in ProcOutcomes :
    LET args == [calendarName |-> calendarName, days |-> days]
        run == listEventsScript(
                 Interpolate(ZodDefault(calendarName, env)),
                 ZodDefault(days, Num(7)).v)
        result == listEvents(executeAppleScript(proc, run))
    IN /\ server = "appleCalendar"
       /\ ProcFits(proc, run)
       /\ Called("listEvents", args, proc, run, result, listEventsTool(result))
       /\ UNCHANGED <<env, calls, server, notes, events, people>>

SearchEventsTool ==
  \E query \in Queries, calendarName \in OptionalCalendarArgs,
     days \in SearchDaysArgs, proc \in ProcOutcomes :
    LET args == [query |-> Str(query), calendarName |-> calendarName,
                 days |-> days]
        run == searchEventsScript(query,
                 Interpolate(ZodDefault(calendarName, env)),
                 ZodDefault(days, Num(90)).v)
        result == searchEvents(executeAppleScript(proc, run))
    IN /\ server = "appleCalendar"
       /\ ProcFits(proc, run)
       /\ Called("searchEvents", args, proc, run, result, searchEventsTool(result))
       /\ UNCHANGED <<env, calls, server, notes, events, people>>

CreateEventTool ==
  \E calendarName \in RequiredCalendarArgs, e \in EventArgs, proc \in ProcOutcomes :
    LET args == [calendarName |-> calendarName, title |-> Str(e.title),
                 startDate |-> Str(e.startDate),
                 endDate |-> Str(EndDateText(e.startDate)),
                 description |-> Str(e.description)]
        run == createEventScript(calendarName.v, e.title, e.startDate,
                                 args.endDate.v)
        result == executeAppleScript(proc, run)
    IN /\ server = "appleCalendar"
       /\ ProcFits(proc, run)
       /\ ~proc.failed => Len(events) < MaxItems
       /\ Called("createEvent", args, proc, run, result, createEventTool(result))
       /\ IF proc.failed THEN events' = events
          ELSE \E pos \in 1..(Len(events) + 1) :
                 events' = InsertAt(events, pos,
                             NewEvent(e.title, e.startDate, args.endDate.v,
                                      e.description))
       /\ UNCHANGED <<env, calls, server, notes, people>>

DeleteEventTool ==
  \E calendarName \in RequiredCalendarArgs, eventTitle \in Titles,
     proc \in ProcOutcomes :
    LET args == [calendarName |-> calendarName, eventTitle |-> Str(eventTitle)]
        run == deleteEventScript(calendarName.v, eventTitle)
        result == executeAppleScript(proc, run)
    IN /\ server = "appleCalendar"
       /\ ProcFits(proc, run)
       /\ Called("deleteEvent", args, proc, run, result, deleteEventTool(result))
       /\ events' = IF proc.failed THEN events ELSE deleteEventStore(eventTitle)
       /\ UNCHANGED <<env, calls, server, notes, people>>

\* getTodayEvents: listEvents(DEFAULT_CALENDAR_NAME, 1).
GetTodayEventsTool ==
  \E proc \in ProcOutcomes :
    LET run == listEventsScript(Interpolate(env), 1)
        result == listEvents(executeAppleScript(proc, run))
    IN /\ server = "appleCalendar"
       /\ ProcFits(proc, run)
       /\ Called("getTodayEvents", [none |-> TRUE], proc, run, result,
                 getTodayEventsTool(result))
       /\ UNCHANGED <<env, calls, server, notes, events, people>>

GetEventDetailsTool ==
  \E calendarName \in RequiredCalendarArgs, eventTitle \in Titles,
     proc \in ProcOutcomes :
    LET args == [calendarName |-> calendarName, eventTitle |-> Str(eventTitle)]
        run == getEventDetailsScript(calendarName.v, eventTitle)
        result == getEventDetails(executeAppleScript(proc, run))
    IN /\ server = "appleCalendar"
       /\ ProcFits(proc, run)
       /\ Called("getEventDetails", args, proc, run, result,
                 getEventDetailsTool(result))
       /\ UNCHANGED <<env, calls, server, notes, events, people>>

(***************************************************************************)
(* The notes tools.                                                        *)
(***************************************************************************)
CreateNoteTool ==
  \E n \in NoteArgs, proc \in ProcOutcomes :
    LET args == [title |-> Str(n.title), body |-> Str(n.body)]
        run == createNoteScript(n.title)
        result == executeAppleScript(proc, run)
    IN /\ server = "appleNotes"
       /\ ~proc.failed => Len(notes) < MaxItems
       /\ Called("createNote", args, proc, run, result, createNoteTool(result))
       /\ IF proc.failed THEN notes' = notes
          ELSE \E pos \in 1..(Len(notes) + 1) :
                 notes' = InsertAt(notes, pos, NewNote(n.title, n.body))
       /\ UNCHANGED <<env, calls, server, events, people>>

SearchNotesTool ==
  \E query \in Queries, proc \in ProcOutcomes :
    LET run == searchNotesScript(query)
        result == searchNotes(executeAppleScript(proc, run))
    IN /\ server = "appleNotes"
       /\ Called("searchNotes", [query |-> Str(query)], proc, run, result,
                 searchNotesTool(result))
       /\ UNCHANGED <<env, calls, server, notes, events, people>>

EditNoteTool ==
  \E noteTitle \in Titles, newBody \in NewBodies, proc \in ProcOutcomes :
    LET args == [noteTitle |-> Str(noteTitle), newBody |-> Str(newBody)]
        run == editNoteScript(noteTitle)
        result == executeAppleScript(proc, run)
    IN /\ server = "appleNotes"
       /\ Called("editNote", args, proc, run, result, editNoteTool(result))
       /\ notes' = IF proc.failed THEN notes ELSE editNoteStore(noteTitle, newBody)
       /\ UNCHANGED <<env, calls, server, events, people>>

ListNotesTool ==
  \E proc \in ProcOutcomes :
    LET run == listNotesScript
        result == listNotes(executeAppleScript(proc, run))
    IN /\ server = "appleNotes"
       /\ Called("listNotes", [none |-> TRUE], proc, run, result,
                 listNotesTool(result))
       /\ UNCHANGED <<env, calls, server, notes, events, people>>

GetNoteContentTool ==
  \E noteTitle \in Titles, proc \in ProcOutcomes :
    LET run == getNoteContentScript(noteTitle)
        result == executeAppleScript(proc, run)
    IN /\ server = "appleNotes"
       /\ Called("getNoteContent", [noteTitle |-> Str(noteTitle)], proc, run,
                 result, getNoteContentTool(result))
       /\ UNCHANGED <<env, calls, server, notes, events, people>>

(***************************************************************************)
(* The contacts tools.                                                     *)
(***************************************************************************)
ListContactsTool ==
  \E proc \in ProcOutcomes :
    LET run == listContactsScript
        result == listContacts(executeAppleScript(proc, run))
    IN /\ server = "appleContacts"
       /\ Called("listContacts", [none |-> TRUE], proc, run, result,
                 listContactsTool(result))
       /\ UNCHANGED <<env, calls, server, notes, events, people>>

SearchContactsTool ==
  \E query \in Queries, proc \in ProcOutcomes :
    LET run == searchContactsScript(query)
        result == searchContacts(executeAppleScript(proc, run))
    IN /\ server = "appleContacts"
       /\ Called("searchContacts", [query |-> Str(query)], proc, run, result,
                 searchContactsTool(result))
       /\ UNCHANGED <<env, calls, server, notes, events, people>>

GetContactTool ==
  \E contactName \in Titles, proc \in ProcOutcomes :
    LET run == getContactScript(contactName)
        result == getContact(executeAppleScript(proc, run))
    IN /\ server = "appleContacts"
       /\ Called("getContact", [contactName |-> Str(contactName)], proc, run,
                 result, getContactTool(result, contactName))
       /\ UNCHANGED <<env, calls, server, notes, events, people>>

CreateContactTool ==
  \E c \in ContactArgs, proc \in ProcOutcomes :
    LET args == [name |-> Str(c.name), email |-> c.email, phone |-> c.phone,
                 organization |-> c.organization, birthday |-> c.birthday]
        run == createContactScript(c.name, c.birthday)
        result == executeAppleScript(proc, run)
    IN /\ server = "appleContacts"
       /\ ProcFits(proc, run)
       /\ ~proc.failed => Len(people) < MaxItems
       /\ Called("createContact", args, proc, run, result,
                 createContactTool(result))
       /\ IF proc.failed THEN people' = people
          ELSE \E pos \in 1..(Len(people) + 1) :
                 people' = InsertAt(people, pos,
                             NewPerson(c.name, c.email, c.phone, c.organization,
                                       c.birthday))
       /\ UNCHANGED <<env, calls, server, notes, events>>

DeleteContactTool ==
  \E contactName \in Titles, proc \in ProcOutcomes :
    LET run == deleteContactScript(contactName)
        result == executeAppleScript(proc, run)
    IN /\ server = "appleContacts"
       /\ Called("deleteContact", [contactName |-> Str(contactName)], proc, run,
                 result, deleteContactTool(result))
       /\ people' = IF proc.failed THEN people ELSE deleteContactStore(contactName)
       /\ UNCHANGED <<env, calls, server, notes, events>>

Next ==
  \/ ListCalendarsTool
  \/ ListEventsTool
  \/ SearchEventsTool
  \/ CreateEventTool
  \/ DeleteEventTool
  \/ GetTodayEventsTool
  \/ GetEventDetailsTool
  \/ CreateNoteTool
  \/ SearchNotesTool
  \/ EditNoteTool
  \/ ListNotesTool
  \/ GetNoteContentTool
  \/ ListContactsTool
  \/ SearchContactsTool
  \/ GetContactTool
  \/ CreateContactTool
  \/ DeleteContactTool

Spec == Init /\ [][Next]_vars

(***************************************************************************)
(* Start-up.  Loading the calendar module reads APPLE_CALENDAR_NAME and    *)
(* throws when it is absent or empty; index.ts imports the module before   *)
(* anything else runs, so the throw ends the process.  Otherwise the       *)
(* managers and the servers are created.                                   *)
(***************************************************************************)
EnvValues == { Undefined, Str(<<>>), Str(DEFAULT_CALENDAR_NAME) }

\* A check that lets every value pass.
EnvMissingNever(e) == FALSE

\* `if (!DEFAULT_CALENDAR_NAME)`.
EnvMissing(e) == ~Truthy(e)

InitLoad ==
  /\ env \in EnvValues
  /\ calls = <<>>
  /\ server = "loading"
  /\ notes = <<>>
  /\ events = <<>>
  /\ people = <<>>
  /\ last = [tool |-> "none"]

LoadModule ==
  /\ server = "loading"
  /\ IF EnvMissing(env) THEN server' = "crashed" ELSE server' \in Servers
  /\ UNCHANGED <<env, calls, notes, events, people, last>>

NextLoad == LoadModule \/ Next

SpecLoad == InitLoad /\ [][NextLoad]_vars

(***************************************************************************)
(* Overlapping calls on one manager.  index.ts calls getContact on a       *)
(* ContactsManager while the agent's tool calls run, and an adapter call   *)
(* is asynchronous: it builds its script and awaits execAsync, the child   *)
(* process runs the script against the address book at some later moment,  *)
(* and the call resumes with the output of that child.  The manager has no *)
(* field but execAsync, which is never assigned again.  A call of calls is *)
(* [tool, name, phase, proc, run, result]; proc and run are those of its   *)
(* child once the child has exited.                                        *)
(***************************************************************************)
\* The most calls of a behaviour with overlapping calls.
MaxCalls == 2

OverlapCalls ==
  { [tool |-> "getContact", name |-> <<"a", "b">>],
    [tool |-> "getContact", name |-> <<"a", "b", "c">>],
    [tool |-> "deleteContact", name |-> <<"a", "b">>],
    [tool |-> "createContact", name |-> <<"a", "b", "c">>] }

\* The address book holds one contact when the calls start.
InitOverlap ==
  /\ env = Str(DEFAULT_CALENDAR_NAME)
  /\ calls = <<>>
  /\ server = "appleContacts"
  /\ notes = <<>>
  /\ events = <<>>
  /\ people = << [id |-> <<"p", "1">>, name |-> <<"a", "b">>, emails |-> <<>>,
                  phones |-> <<>>, organization |-> <<"c">>,
                  birthday |-> NoBirthday] >>
  /\ last = [tool |-> "none"]

\* An adapter method is called: up to its `await this.execAsync(...)`.
StartCall ==
  \E call \in OverlapCalls :
    /\ server = "appleContacts"
    /\ Len(calls) < MaxCalls
    /\ calls' = Append(calls,
                  [tool |-> call.tool, name |-> call.name, phase |-> "awaiting",
                   proc |-> [failed |-> FALSE, stderr |-> <<>>],
                   run |-> ScriptResult(<<>>), result |-> Null])
    /\ UNCHANGED <<env, server, notes, events, people, last>>

\* The child process of call c runs its script and exits.
ChildExits ==
  \E c \in 1..Len(calls), proc \in ProcOutcomes :
    LET call == calls[c]
        run == IF call.tool = "getContact" THEN getContactScript(call.name)
               ELSE IF call.tool = "deleteContact"
                 THEN deleteContactScript(call.name)
               ELSE createContactScript(call.name, Undefined)
    IN /\ call.phase = "awaiting"
       /\ ProcFits(proc, run)
       /\ (call.tool = "createContact" /\ ~proc.failed) => Len(people) < MaxItems
       /\ calls' = [calls EXCEPT ![c].phase = "exited", ![c].proc = proc,
                                 ![c].run = run]
       /\ IF proc.failed \/ call.tool = "getContact" THEN people' = people
          ELSE IF call.tool = "deleteContact"
            THEN people' = deleteContactStore(call.name)
          ELSE \E pos \in 1..(Len(people) + 1) :
                 people' = InsertAt(people, pos,
                             NewPerson(call.name, Undefined, Undefined,
                                       Undefined, Undefined))
       /\ UNCHANGED <<env, server, notes, events, last>>

\* An executor that keeps the child's output in a field of the manager,
\* where the latest child to exit overwrites it.
sharedOutput(cs, c) ==
  LET done == {d \in 1..Len(cs) : cs[d].phase # "awaiting"}
  IN cs[CHOOSE d \in done : \A e \in done : e <= d]

\* `const { stdout, stderr } = await this.execAsync(...)`: the output a
\* resumed call reads is the one of its own child.
ownOutput(cs, c) == cs[c]

\* Call c resumes after its await and returns.
ReturnCall ==
  \E c \in 1..Len(calls) :
    LET out == ownOutput(calls, c)
        raw == executeAppleScript(out.proc, out.run)
    IN /\ calls[c].phase = "exited"
       /\ calls' = [calls EXCEPT ![c].phase = "returned",
                                 ![c].result =
                                   IF calls[c].tool = "getContact"
                                     THEN getContact(raw) ELSE raw]
       /\ UNCHANGED <<env, server, notes, events, people, last>>

NextOverlap == StartCall \/ ChildExits \/ ReturnCall

SpecOverlap == InitOverlap /\ [][NextOverlap]_vars

(***************************************************************************)
(* Vocabulary of the properties: what the specification says of texts and  *)
(* records, stated without the scripts' loops and the adapters' decoding.  *)
(***************************************************************************)
Ran == last.tool # "none"

Succeeded == Ran /\ ~last.proc.failed

\* The same text in full, as the applications compare text (ignoring case).
SameText(a, b) ==
  /\ Len(a) = Len(b)
  /\ \A i \in 1..Len(a) : FoldChar(a[i]) = FoldChar(b[i])

\* q occurs somewhere inside a, ignoring case.
HasText(a, q) ==
  \E i \in 0..(Len(a) - Len(q)) :
    \A j \in 1..Len(q) : FoldChar(a[i + j]) = FoldChar(q[j])

\* The positions of the items a predicate picks, and the first of them.
Picked(items, P(_)) == {i \in 1..Len(items) : P(items[i])}

FirstPicked(items, P(_)) ==
  CHOOSE i \in Picked(items, P) : \A j \in Picked(items, P) : i <= j

\* The record a stored item stands for.
NoteRecord(n) == Obj([id |-> Str(n.id), name |-> Str(n.name), body |-> Str(n.body)])

EventRecord(e, calendarName) ==
  Obj([summary |-> Str(e.summary), startDate |-> Str(DateText(e.start)),
       endDate |-> Str(DateText(e.end)), calendar |-> Str(calendarName)])

TextOrAbsent(t) == IF t = <<>> THEN Undefined ELSE Str(t)

ContactRecord(p) ==
  Obj([id |-> Str(p.id), name |-> Str(p.name),
       emails |-> Arr([i \in 1..Len(p.emails) |-> Str(p.emails[i])]),
       phones |-> Arr([i \in 1..Len(p.phones) |-> Str(p.phones[i])]),
       organization |-> TextOrAbsent(p.organization),
       birthday |-> IF p.birthday = NoBirthday THEN Undefined
                                               ELSE Str(DateText(p.birthday))])

\* The records of a sequence of items.
Map(f(_), s) == [i \in 1..Len(s) |-> f(s[i])]

\* A batch of records as an adapter returns it: null when there is none.
BatchOrNull(records) == IF records = <<>> THEN Null ELSE Arr(records)

\* The calendar and the lookahead of the last call: the argument the agent
\* gave, or the documented default when it gave none.
CalendarArg ==
  IF last.args.calendarName = Undefined THEN DEFAULT_CALENDAR_NAME
  ELSE last.args.calendarName.v

DaysArg(default) ==
  IF last.args.days = Undefined THEN default ELSE last.args.days.v

\* now <= start <= now + N days.
Eligible(e, n) == Now <= e.start /\ e.start <= Now + n * SecondsPerDay

(***************************************************************************)
(* C1.  When the osascript invocation fails (spawn error or non-zero       *)
(* exit), every adapter operation resolves to null.                        *)
(***************************************************************************)
C1_FailureIsNull == (Ran /\ last.proc.failed) => last.result = Null

\* The process fails on a lookup that would have found its contact.
C1_Witness ==
  /\ Ran
  /\ last.proc.failed
  /\ last.tool = "getContact"
  /\ people # <<>>
  /\ last.result = Null

(***************************************************************************)
(* C2.  Every tool callback returns exactly one content block whose text   *)
(* is a string.                                                            *)
(***************************************************************************)
C2_TextIsString ==
  Ran => /\ Len(last.response.content) = 1
         /\ IsString(last.response.content[1].text)

(***************************************************************************)
(* The record codec on its own.  The applications hold whatever their user *)
(* typed: SpecCodec starts from a store of arbitrary items, delimiter      *)
(* characters and blanks included, and lists it.                           *)
(***************************************************************************)
\* The most records of a listed batch.
MaxBatch == 2

FieldTexts ==
  { <<"a">>, <<"a", "|">>, <<"a", ":">>, <<"a", " ">>, <<>>,
    <<"a", "|", "|", "|", "b">>, <<"a", ":", ":", ":", "b">> }

NameTexts == { <<"a">>, <<"a", "|">>, <<"a", "|", "|", "|", "b">> }

ListValues ==
  { <<>>, << <<"a">> >>, << <<"a", ",", "b">> >>, << <<"a">>, <<"b">> >>,
    << <<>> >> }

\* The batches of at most MaxBatch choices of contents.
Batches(Choices) == UNION { [1..n -> Choices] : n \in 1..MaxBatch }

CodecNotes ==
  { [i \in 1..Len(b) |->
       [id |-> <<"n">> \o Digits(i), name |-> b[i][1], body |-> b[i][2]]]
    : b \in Batches(NameTexts \X FieldTexts) }

CodecEvents ==
  { [i \in 1..Len(b) |->
       [summary |-> b[i][1], start |-> b[i][2], end |-> b[i][2] + 3600,
        description |-> <<>>, location |-> <<>>, url |-> <<>>]]
    : b \in Batches(FieldTexts \X {Now, Now + 1}) }

CodecPeople ==
  { [i \in 1..Len(b) |->
       [id |-> <<"p">> \o Digits(i), name |-> b[i][1], emails |-> b[i][2],
        phones |-> <<>>, organization |-> b[i][3], birthday |-> b[i][4]]]
    : b \in Batches({<<"a">>} \X ListValues \X {<<>>, <<"a", "|", "|", "|", "b">>}
                      \X {NoBirthday, Now}) }

InitCodec ==
  /\ env = Str(DEFAULT_CALENDAR_NAME)
  /\ calls = <<>>
  /\ server \in Servers
  /\ notes \in (IF server = "appleNotes" THEN CodecNotes ELSE {<<>>})
  /\ events \in (IF server = "appleCalendar" THEN CodecEvents ELSE {<<>>})
  /\ people \in (IF server = "appleContacts" THEN CodecPeople ELSE {<<>>})
  /\ last = [tool |-> "none"]

NextCodec ==
  \/ ListNotesTool
  \/ ListEventsTool
  \/ ListContactsTool

SpecCodec == InitCodec /\ [][NextCodec]_vars

\* No field of the store holds a delimiter: neither "|||" nor ":::", and no
\* "," inside an item of a list field.
CleanText(t) == ~Includes(t, FieldSep) /\ ~Includes(t, RecordSep)

CleanList(l) ==
  \A i \in 1..Len(l) : CleanText(l[i]) /\ ~Includes(l[i], ListSep)

CleanStore ==
  /\ \A i \in 1..Len(notes) : CleanText(notes[i].name) /\ CleanText(notes[i].body)
  /\ \A i \in 1..Len(events) : CleanText(events[i].summary)
  /\ \A i \in 1..Len(people) :
       /\ CleanText(people[i].name)
       /\ CleanText(people[i].organization)
       /\ CleanList(people[i].emails)
       /\ CleanList(people[i].phones)

(***************************************************************************)
(* C3.  Codec round trip: listing a non-empty store whose fields hold no   *)
(* delimiter yields exactly the stored records, field by field and in      *)
(* order.                                                                  *)
(***************************************************************************)
C3_RoundTrip ==
  (Succeeded /\ CleanStore) =>
    /\ last.tool = "listNotes" =>
         last.result = Arr([i \in 1..Len(notes) |-> NoteRecord(notes[i])])
    /\ (last.tool = "listEvents" /\ last.args.days = Undefined) =>
         last.result = Arr([i \in 1..Len(events) |->
                              EventRecord(events[i], CalendarArg)])
    /\ last.tool = "listContacts" =>
         last.result = Arr([i \in 1..Len(people) |-> ContactRecord(people[i])])

(***************************************************************************)
(* C4.  Empty-input law.  As claimed: whenever the script's output is the  *)
(* empty text, a list, search or get operation returns null, and no        *)
(* operation returns a zero-length array.                                  *)
(***************************************************************************)
DecodingTools ==
  { "listCalendars", "listEvents", "searchEvents", "getTodayEvents",
    "getEventDetails", "searchNotes", "listNotes", "listContacts",
    "searchContacts", "getContact" }

ReadTools == DecodingTools \cup {"getNoteContent"}

NoEmptyArray == (Ran /\ last.result.k = "array") => last.result.v # <<>>

\* C4 as claimed: on empty output every list, search and get operation
\* returns null, and no operation returns a zero-length array.
C4_Original ==
  /\ (Succeeded /\ last.tool \in ReadTools /\ last.run.out = <<>>) =>
       last.result = Null
  /\ NoEmptyArray

\* C4 as amended: on empty output the operations that decode records return
\* null and getNoteContent returns the empty text itself; no operation
\* returns a zero-length array.
C4_EmptyOutput ==
  /\ (Succeeded /\ last.tool \in DecodingTools /\ last.run.out = <<>>) =>
       last.result = Null
  /\ (Succeeded /\ last.tool = "getNoteContent" /\ last.run.out = <<>>) =>
       last.result = Str(<<>>)
  /\ NoEmptyArray

\* A search over a calendar that has events, none of which matches.
C4_Witness ==
  /\ Succeeded
  /\ last.tool = "searchEvents"
  /\ events # <<>>
  /\ last.run.out = <<>>
  /\ last.result = Null

(***************************************************************************)
(* C5.  The get, delete and edit operations select an item only when its   *)
(* title or name equals the given text in full: every item whose title or  *)
(* name differs from it, the ones that merely contain it included, is left *)
(* as it was, and what a get operation returns is an item with that title  *)
(* or name.                                                                *)
(***************************************************************************)
Did(tool) == last'.tool = tool /\ ~last'.proc.failed

EventDetailRecord(e, calendarName) ==
  Obj([summary |-> Str(e.summary), startDate |-> Str(DateText(e.start)),
       endDate |-> Str(DateText(e.end)), calendar |-> Str(calendarName),
       description |-> Str(e.description), location |-> Str(e.location),
       url |-> Str(e.url)])

C5_Step ==
  /\ Did("deleteEvent") =>
       LET other(e) == ~SameText(e.summary, last'.args.eventTitle.v)
       IN SelectSeq(events', other) = SelectSeq(events, other)
  /\ Did("deleteContact") =>
       LET other(p) == ~SameText(p.name, last'.args.contactName.v)
       IN SelectSeq(people', other) = SelectSeq(people, other)
  /\ Did("editNote") =>
       LET other(n) == ~SameText(n.name, last'.args.noteTitle.v)
       IN /\ SelectSeq(notes', other) = SelectSeq(notes, other)
          /\ Len(notes') = Len(notes)
  /\ (Did("getEventDetails") /\ last'.result # Null) =>
       \E i \in 1..Len(events) :
         /\ SameText(events[i].summary, last'.args.eventTitle.v)
         /\ last'.result = EventDetailRecord(events[i], last'.args.calendarName.v)
  /\ (Did("getContact") /\ last'.result # Null) =>
       \E i \in 1..Len(people) :
         /\ SameText(people[i].name, last'.args.contactName.v)
         /\ last'.result = ContactRecord(people[i])
  /\ Did("getNoteContent") =>
       \/ last'.result = Str(StatusPrefix.noteNotFound \o last'.args.noteTitle.v)
       \/ \E i \in 1..Len(notes) :
            /\ SameText(notes[i].name, last'.args.noteTitle.v)
            /\ last'.result = Str(notes[i].body)

\* C5: every step of a get, delete or edit operation selects only an item
\* whose title or name equals the given text in full.
C5_ExactOnly == [][C5_Step]_vars

\* Asked to delete "ab" while only "abc" is stored: nothing is deleted.
C5_Witness ==
  /\ Succeeded
  /\ last.tool = "deleteContact"
  /\ last.args.contactName = Str(<<"a", "b">>)
  /\ \E i \in 1..Len(people) : people[i].name = <<"a", "b", "c">>
  /\ last.result = Str(StatusPrefix.contactNotFound \o <<"a", "b">>)

(***************************************************************************)
(* C6.  A search returns exactly the items in which the query occurs in    *)
(* one of the two searched texts (name or body of a note; summary or       *)
(* description of an event inside the window; name or organization of a    *)
(* contact), in the order of the store, and null when there is none.       *)
(***************************************************************************)
C6_SearchExact ==
  Succeeded =>
    /\ last.tool = "searchNotes" =>
         last.result =
           BatchOrNull(Map(NoteRecord,
             SelectSeq(notes, LAMBDA n : \/ HasText(n.name, last.args.query.v)
                                         \/ HasText(n.body, last.args.query.v))))
    /\ last.tool = "searchEvents" =>
         last.result =
           BatchOrNull(Map(LAMBDA e : EventRecord(e, CalendarArg),
             SelectSeq(events,
               LAMBDA e : /\ Eligible(e, DaysArg(90))
                          /\ \/ HasText(e.summary, last.args.query.v)
                             \/ HasText(e.description, last.args.query.v))))
    /\ last.tool = "searchContacts" =>
         last.result =
           BatchOrNull(Map(ContactRecord,
             SelectSeq(people,
               LAMBDA p : \/ HasText(p.name, last.args.query.v)
                          \/ HasText(p.organization, last.args.query.v))))

\* Two notes, of which the search returns the second only.
C6_Witness ==
  /\ Succeeded
  /\ last.tool = "searchNotes"
  /\ Len(notes) = 2
  /\ last.result = Arr(<<NoteRecord(notes[2])>>)

(***************************************************************************)
(* C7.  listEvents and searchEvents with lookahead N (7 for listEvents and *)
(* 90 for searchEvents when none is given) consider exactly the events     *)
(* with now <= start <= now + N days, both ends included.                  *)
(***************************************************************************)
StartDates(result) ==
  IF result = Null THEN <<>>
  ELSE [i \in 1..Len(result.v) |-> result.v[i].v.startDate]

StartsOf(es) == [i \in 1..Len(es) |-> Str(DateText(es[i].start))]

\* C7: the events listed, and the events searched, are those that start
\* from now to now + N days, both ends included.
C7_Window ==
  Succeeded =>
    /\ last.tool = "listEvents" =>
         StartDates(last.result) =
           StartsOf(SelectSeq(events, LAMBDA e : Eligible(e, DaysArg(7))))
    /\ last.tool = "searchEvents" =>
         /\ \A i \in 1..Len(StartDates(last.result)) :
              \E j \in 1..Len(events) :
                /\ Eligible(events[j], DaysArg(90))
                /\ StartDates(last.result)[i] = Str(DateText(events[j].start))
         /\ \A j \in 1..Len(events) :
              (/\ Eligible(events[j], DaysArg(90))
               /\ HasText(events[j].summary, last.args.query.v)) =>
                \E i \in 1..Len(StartDates(last.result)) :
                  StartDates(last.result)[i] = Str(DateText(events[j].start))

\* The default lookahead with an event exactly seven days ahead and an
\* event one second later: the first is listed, the second is not.
C7_Witness ==
  /\ Succeeded
  /\ last.tool = "listEvents"
  /\ last.args.days = Undefined
  /\ Len(events) = 2
  /\ {events[1].start, events[2].start}
       = {Now + 7 * SecondsPerDay, Now + 7 * SecondsPerDay + 1}
  /\ StartDates(last.result) = <<Str(DateText(Now + 7 * SecondsPerDay))>>

(***************************************************************************)
(* C8.  deleteEvent, deleteContact and editNote act on the first item with *)
(* the exact title or name and on no other; when there is none, the store  *)
(* is unchanged and the status is the "not found" text for that title.     *)
(***************************************************************************)
Without(s, i) ==
  [j \in 1..(Len(s) - 1) |-> IF j < i THEN s[j] ELSE s[j + 1]]

C8_Step ==
  /\ Did("deleteEvent") =>
       LET title == last'.args.eventTitle.v
           P(e) == SameText(e.summary, title)
       IN IF Picked(events, P) = {}
            THEN /\ events' = events
                 /\ last'.result = Str(StatusPrefix.eventNotFound \o title)
            ELSE events' = Without(events, FirstPicked(events, P))
  /\ Did("deleteContact") =>
       LET name == last'.args.contactName.v
           P(p) == SameText(p.name, name)
       IN IF Picked(people, P) = {}
            THEN /\ people' = people
                 /\ last'.result = Str(StatusPrefix.contactNotFound \o name)
            ELSE people' = Without(people, FirstPicked(people, P))
  /\ Did("editNote") =>
       LET title == last'.args.noteTitle.v
           P(n) == SameText(n.name, title)
       IN IF Picked(notes, P) = {}
            THEN /\ notes' = notes
                 /\ last'.result = Str(StatusPrefix.noteNotFound \o title)
            ELSE notes' = [notes EXCEPT ![FirstPicked(notes, P)].body =
                                          last'.args.newBody.v]

\* C8: every deleting or editing step changes the first exact match and
\* nothing else, or nothing at all with the "not found" status.
C8_FirstMatchOnly == [][C8_Step]_vars

\* An event was deleted and a later event with the same title remains.
C8_Witness ==
  /\ Succeeded
  /\ last.tool = "deleteEvent"
  /\ last.result = Str(StatusPrefix.eventDeleted \o last.args.eventTitle.v)
  /\ \E i \in 1..Len(events) :
       SameText(events[i].summary, last.args.eventTitle.v)

(***************************************************************************)
(* C9.  As claimed: getContact and getEventDetails return null if and only *)
(* if no stored item has exactly the requested name or title, whatever the *)
(* fields of the items hold.                                               *)
(***************************************************************************)
C9_NullIffAbsent ==
  Succeeded =>
    /\ last.tool = "getContact" =>
         (last.result = Null <=>
            Picked(people,
                   LAMBDA p : SameText(p.name, last.args.contactName.v)) = {})
    /\ last.tool = "getEventDetails" =>
         (last.result = Null <=>
            Picked(events,
                   LAMBDA e : SameText(e.summary, last.args.eventTitle.v)) = {})

(***************************************************************************)
(* C10.  After createContact with no organization (likewise no email,      *)
(* phone or birthday) the script sets no such attribute, and a following   *)
(* getContact with the same name returns a record in which the             *)
(* organization is absent.  The claim is read for a contact that alone     *)
(* bears its name, so that the call fetches the contact just created.      *)
(***************************************************************************)
CreatedThenFetched ==
  /\ last.tool = "createContact"
  /\ ~last.proc.failed
  /\ Did("getContact")
  /\ last'.args.contactName = last.args.name
  /\ Cardinality(Picked(people,
                        LAMBDA p : SameText(p.name, last.args.name.v))) = 1

AbsentWhereOmitted ==
  /\ last.args.organization = Undefined =>
       /\ PersonProperties(last.args.name.v, Undefined).organization = <<>>
       /\ last'.result # Null
       /\ last'.result.v.organization = Undefined
  /\ last.args.email = Undefined =>
       /\ OptionalValue(Undefined) = <<>>
       /\ last'.result # Null
       /\ last'.result.v.emails = Arr(<<>>)
  /\ last.args.phone = Undefined =>
       /\ last'.result # Null
       /\ last'.result.v.phones = Arr(<<>>)
  /\ last.args.birthday = Undefined =>
       /\ last'.result # Null
       /\ last'.result.v.birthday = Undefined

\* C10: a contact created without an optional attribute and then fetched by
\* its name, which it alone bears, comes back without that attribute.
C10_OmittedIsAbsent == [][CreatedThenFetched => AbsentWhereOmitted]_vars

(***************************************************************************)
(* C11.  Text on standard error is a warning only: whenever the child      *)
(* process exits successfully the executor's result is the trimmed         *)
(* standard output, with or without a warning, and the result is null only *)
(* when the process fails.                                                 *)
(***************************************************************************)
\* The tools whose adapter returns the executor's result as it is.
RawTools ==
  { "createEvent", "deleteEvent", "createNote", "editNote", "getNoteContent",
    "createContact", "deleteContact" }

\* The standard output of the last run, trimmed.
TrimmedOutput == Trim(last.run.out \o <<NL>>)

\* C11: the result is the trimmed standard output on a successful exit,
\* whatever standard error holds, and null on a failure only.
C11_WarningIsNotFailure ==
  /\ (Ran /\ last.tool \in RawTools) =>
       IF last.proc.failed THEN last.result = Null
                           ELSE last.result = Str(TrimmedOutput)
  /\ (Succeeded /\ last.tool \in DecodingTools \ {"getContact"}) =>
       (last.result = Null <=> TrimmedOutput = <<>>)

\* A note was created by a run that wrote a warning and exited successfully.
C11_Witness ==
  /\ Ran
  /\ ~last.proc.failed
  /\ last.proc.stderr # <<>>
  /\ last.tool = "createNote"
  /\ last.result = Str(StatusPrefix.noteCreated \o last.args.title.v)

(***************************************************************************)
(* C12.  As claimed: the executor logs and returns null both when the      *)
(* child process fails and when the interpreter writes a warning to        *)
(* standard error.                                                         *)
(***************************************************************************)
\* C12 as claimed: whenever standard error is not empty the result is null.
C12_Original ==
  (Ran /\ last.tool \in RawTools /\ last.proc.stderr # <<>>) =>
    last.result = Null

\* C12 as amended: the executor logs in both cases, and returns null in the
\* first only; after a warning on a successful exit the result is the
\* standard output.
C12_LogsBothNullOnFailure ==
  Ran =>
    /\ consoleError(last.proc) # <<>>
         <=> (last.proc.failed \/ last.proc.stderr # <<>>)
    /\ last.tool \in RawTools => (last.result = Null <=> last.proc.failed)

\* A contact was deleted by a run that wrote a warning: the warning is
\* logged and the status text is returned.
C12_Witness ==
  /\ Ran
  /\ ~last.proc.failed
  /\ last.proc.stderr # <<>>
  /\ consoleError(last.proc) # <<>>
  /\ last.tool = "deleteContact"
  /\ last.result = Str(StatusPrefix.contactDeleted \o last.args.contactName.v)

(***************************************************************************)
(* C13.  getTodayEvents returns the events scheduled for today: every      *)
(* event that starts on the current calendar day and no event that starts  *)
(* on another day.                                                         *)
(***************************************************************************)
Today(e) == e.start \div SecondsPerDay = Now \div SecondsPerDay

\* C13: the events of getTodayEvents are those that start on the current
\* calendar day.
C13_TodayOnly ==
  (Succeeded /\ last.tool = "getTodayEvents") =>
    StartDates(last.result) = StartsOf(SelectSeq(events, Today))

(***************************************************************************)
(* C14.  APPLE_CALENDAR_NAME is required: when it is absent or empty the   *)
(* loading of the calendar module fails before any manager or tool exists, *)
(* so that no tool ever runs without a default calendar name.              *)
(***************************************************************************)
\* C14: without a default calendar name the start-up ends in the fatal
\* error and no tool is ever called; a tool is called only with one.
C14_DefaultCalendarRequired ==
  /\ (~Truthy(env) /\ server # "loading") => server = "crashed"
  /\ server = "crashed" => ~Ran
  /\ Ran => (Truthy(env) /\ server \in Servers)

\* The module was loaded without the setting and the process has ended.
C14_Witness ==
  /\ env = Undefined
  /\ server = "crashed"
  /\ ~Ran

(***************************************************************************)
(* C15.  There is no delimiter escaping: when a field of a listed record   *)
(* contains "|||" or ":::", the decoding still completes and yields a      *)
(* batch that differs from the records listed.                             *)
(***************************************************************************)
Delimited(t) == Includes(t, FieldSep) \/ Includes(t, RecordSep)

\* The events a listing with the last call's lookahead goes through.
ListedEvents == SelectSeq(events, LAMBDA e : Eligible(e, DaysArg(7)))

\* C15: a listing of records of which some field holds a delimiter returns
\* a batch, and the batch is not the records listed.
C15_NoEscaping ==
  Succeeded =>
    /\ (/\ last.tool = "listNotes"
        /\ \E i \in 1..Len(notes) :
             Delimited(notes[i].name) \/ Delimited(notes[i].body)) =>
         /\ last.result.k = "array"
         /\ last.result # Arr(Map(NoteRecord, notes))
    /\ (/\ last.tool = "listEvents"
        /\ \E i \in 1..Len(ListedEvents) : Delimited(ListedEvents[i].summary)) =>
         /\ last.result.k = "array"
         /\ last.result #
              Arr(Map(LAMBDA e : EventRecord(e, CalendarArg), ListedEvents))
    /\ (/\ last.tool = "listContacts"
        /\ \E i \in 1..Len(people) : Delimited(people[i].organization)) =>
         /\ last.result.k = "array"
         /\ last.result # Arr(Map(ContactRecord, people))

\* One note whose body holds the field delimiter was listed: the body that
\* comes back is the part before the delimiter.
C15_Witness ==
  /\ Succeeded
  /\ last.tool = "listNotes"
  /\ Len(notes) = 1
  /\ notes[1].name = <<"a">>
  /\ notes[1].body = <<"a", "|", "|", "|", "b">>
  /\ last.result = Arr(<< Obj([id |-> Str(notes[1].id), name |-> Str(<<"a">>),
                               body |-> Str(<<"a">>)]) >>)

(***************************************************************************)
(* C16.  At the tool surface a failed invocation reads like a no-match:    *)
(* for the nine record tools the text returned when osascript fails is the *)
(* text returned when it succeeds with empty output, and it never begins   *)
(* with "Error: ".                                                         *)
(***************************************************************************)
RecordTools ==
  { "listEvents", "searchEvents", "getTodayEvents", "getEventDetails",
    "listContacts", "searchContacts", "getContact", "listNotes", "searchNotes" }

\* What the executor returns for a successful run with empty output.
EmptyOutput ==
  executeAppleScript([failed |-> FALSE, stderr |-> <<>>], ScriptResult(<<>>))

\* The response of a record tool to a successful run with empty output.
EmptyResponse(tool) ==
  CASE tool = "listEvents" -> listEventsTool(listEvents(EmptyOutput))
    [] tool = "searchEvents" -> searchEventsTool(searchEvents(EmptyOutput))
    [] tool = "getTodayEvents" -> getTodayEventsTool(listEvents(EmptyOutput))
    [] tool = "getEventDetails" ->
         getEventDetailsTool(getEventDetails(EmptyOutput))
    [] tool = "listContacts" -> listContactsTool(listContacts(EmptyOutput))
    [] tool = "searchContacts" ->
         searchContactsTool(searchContacts(EmptyOutput))
    [] tool = "getContact" ->
         getContactTool(getContact(EmptyOutput), last.args.contactName.v)
    [] tool = "listNotes" -> listNotesTool(listNotes(EmptyOutput))
    [] tool = "searchNotes" -> searchNotesTool(searchNotes(EmptyOutput))

ErrorPrefix == <<"E", "r", "r", "o", "r", ":", " ">>

\* C16: a record tool answers a failed invocation, and a successful one
\* with empty output, with one and the same text, which is no error text.
C16_FailureReadsAsNoMatch ==
  (/\ Ran
   /\ last.tool \in RecordTools
   /\ last.proc.failed \/ TrimmedOutput = <<>>) =>
    /\ last.response = EmptyResponse(last.tool)
    /\ IsString(last.response.content[1].text)
    /\ LET text == last.response.content[1].text.v
       IN ~(/\ Len(text) >= Len(ErrorPrefix)
            /\ SubSeq(text, 1, Len(ErrorPrefix)) = ErrorPrefix)

\* The listing of a calendar that has events fails, and the answer is the
\* one for a calendar without events.
C16_Witness ==
  /\ Ran
  /\ last.proc.failed
  /\ last.tool = "listEvents"
  /\ events # <<>>
  /\ last.response = listEventsTool(Null)
  /\ last.response = EmptyResponse("listEvents")

(***************************************************************************)
(* C18.  The getNoteContent tool answers "Note not found." only when no    *)
(* note has the requested title or the invocation failed; for a note with  *)
(* that title it returns the note's body, an empty body included.          *)
(***************************************************************************)
NoteNotFoundText ==
  <<"N", "o", "t", "e", " ", "n", "o", "t", " ", "f", "o", "u", "n", "d", ".">>

\* The positions of the notes with the title of the last call.
Titled ==
  Picked(notes, LAMBDA n : SameText(n.name, last.args.noteTitle.v))

\* C18: the text of getNoteContent is the body of the first note with the
\* title when there is one and the invocation succeeded, and it is
\* "Note not found." only otherwise.
C18_BodyOrNotFound ==
  (Ran /\ last.tool = "getNoteContent") =>
    LET text == last.response.content[1].text
    IN /\ (Succeeded /\ Titled # {}) =>
            text = Str(notes[CHOOSE i \in Titled : \A j \in Titled : i <= j].body)
       /\ text = Str(NoteNotFoundText) => (last.proc.failed \/ Titled = {})

(***************************************************************************)
(* C17.  Overlapping calls on one manager do not mix: whatever the         *)
(* interleaving, what a call returns is determined by the output of the    *)
(* child process of that call, and a step of one call leaves the other     *)
(* calls as they were.                                                     *)
(***************************************************************************)
\* What a call returns when it reads the outcome of its own child.
OwnResult(call) ==
  LET raw == IF call.proc.failed THEN Null
             ELSE Str(Trim(call.run.out \o <<NL>>))
  IN IF call.tool = "getContact" THEN getContact(raw) ELSE raw

\* Two calls were in flight at the same moment.
Overlapped ==
  /\ Len(calls) >= 2
  /\ \E c, d \in 1..Len(calls) : c # d /\ calls[c].phase # "returned"

C17_Step ==
  /\ \A c \in 1..Len(calls) :
       calls'[c].phase = "returned" => calls'[c].result = OwnResult(calls'[c])
  /\ \A c, d \in 1..Len(calls) :
       (c # d /\ calls'[c] # calls[c]) => calls'[d] = calls[d]
  /\ \A c \in 1..Len(calls) :
       calls[c].phase # "awaiting" =>
         (calls'[c].proc = calls[c].proc /\ calls'[c].run = calls[c].run)

\* C17: in every step of overlapping calls, a call that has returned has
\* the result of its own child's output, and no step of one call changes
\* another call.
C17_CallsDoNotMix == [][C17_Step]_vars

\* A lookup that was started first returned last, after the child of a
\* deletion had exited, with the contact its own child had found.
C17_Witness ==
  /\ Len(calls) = 2
  /\ calls[1].tool = "getContact"
  /\ calls[2].tool = "deleteContact"
  /\ calls[1].phase = "returned"
  /\ calls[2].phase = "exited"
  /\ ~calls[1].proc.failed
  /\ ~calls[2].proc.failed
  /\ people = <<>>
  /\ calls[1].result # Null
  /\ calls[1].result = OwnResult(calls[1])

====
